---- MODULE Spec2Model ----
(***************************************************************************)
(* Model of src/app.py: the Flask application of the Parent-AI Tutor.      *)
(*                                                                         *)
(* The state is the start-up configuration (OPENAI_API_KEY, client, the    *)
(* shape of the installed openai package) and, for every request being     *)
(* handled, the locals of chat() and get_ai_response().  A text is a       *)
(* sequence of characters; a fixed message of the program is a sequence    *)
(* holding that one message.                                               *)
(***************************************************************************)
EXTENDS Integers, Sequences, FiniteSets, TLC

VARIABLES
    OPENAI_API_KEY,  \* "unset", "empty" or "set": os.getenv("OPENAI_API_KEY")
    client,          \* TRUE iff the module-level client is an openai.OpenAI object
    lib,             \* shape of the installed openai package: "v1" or "legacy"
    workers,         \* the requests the server handles concurrently
    pc,              \* per request: "idle", "chat", "upstream", "done"
    body,            \* per request: the body that was posted
    message,         \* per request: chat()'s local `message`
    age_int,         \* per request: chat()'s local `age_int`
    adapter,         \* per request: the arguments get_ai_response() was called with
    messages,        \* per request: the turns of the outbound completion call
    calls,           \* per request: the call paths used for outbound calls, in order
    outcome,         \* per request: what the completion service answered
    logged,          \* per request: the line get_ai_response() logged
    resp             \* per request: the HTTP response

cfg == <<OPENAI_API_KEY, client, lib, workers>>
vars == <<OPENAI_API_KEY, client, lib, workers, pc, body, message, age_int,
          adapter, messages, calls, outcome, logged, resp>>

-----------------------------------------------------------------------------
(* Bounds *)

MaxLen == 2          \* longest text posted or returned by the service
NumWorkers == 2      \* requests in flight at once in SpecConc
AgeMargin == 2       \* how far outside [MinAge, MaxAge] integer ages are drawn

(* Program constants *)

MinAge == 1
MaxAge == 18

-----------------------------------------------------------------------------
(* Texts *)

Chars == {"a", " "}

IsSpace(c) == c = " "

Texts(n) == UNION {[1..k -> Chars] : k \in 0..n}

RECURSIVE lstrip(_)
lstrip(s) ==
    IF s = <<>> THEN <<>>
    ELSE IF IsSpace(Head(s)) THEN lstrip(Tail(s)) ELSE s

RECURSIVE rstrip(_)
rstrip(s) ==
    IF s = <<>> THEN <<>>
    ELSE IF IsSpace(s[Len(s)]) THEN rstrip(SubSeq(s, 1, Len(s) - 1)) ELSE s

\* a strip() that leaves trailing whitespace in place
stripLeftOnly(s) == lstrip(s)

\* str.strip(): leading and trailing whitespace removed
strip(s) == rstrip(lstrip(s))

NoText == <<>>

ErrNoMessage == <<"No message provided.">>
ErrAgeRange == <<"Please enter an age between 1 and 18.">>
ErrAgeInvalid == <<"Invalid age provided.">>
ErrNotConfigured == <<"OpenAI API key is not configured.">>
ErrAuth == <<"Invalid OpenAI API key. Please check your configuration.">>
ErrContact == <<"An error occurred while contacting OpenAI. Please try again later.">>

UpstreamDetail == <<"upstream error detail">>

PromptHead == "You are an AI tutor ... The child is "
PromptTail == " years old. Speak directly to the parent ... Avoid jargon."

\* the system prompt: the template with the age formatted into it
SystemPrompt(age) == <<PromptHead, age, PromptTail>>

-----------------------------------------------------------------------------
(* Request bodies *)

\* the "message" member of the posted object
MsgMissing == [t |-> "missing", v |-> NoText]
MsgFields(n) ==
    {MsgMissing, [t |-> "null", v |-> NoText], [t |-> "number", v |-> NoText]}
    \cup {[t |-> "str", v |-> s] : s \in Texts(n)}

\* the "age" member of the posted object.  A float is given in tenths; a
\* "numstr" is the decimal text of an integer; inf is what 1e999 parses to.
AgeMissing == [t |-> "missing", v |-> 0]
AgeInts == (MinAge - AgeMargin)..(MaxAge + AgeMargin)
AgeFields ==
    {AgeMissing, [t |-> "null", v |-> 0], [t |-> "word", v |-> 0],
     [t |-> "floatstr", v |-> 35], [t |-> "list", v |-> 0],
     [t |-> "inf", v |-> 0], [t |-> "nan", v |-> 0],
     [t |-> "bool", v |-> 0], [t |-> "bool", v |-> 1]}
    \cup {[t |-> "int", v |-> n] : n \in AgeInts}
    \cup {[t |-> "numstr", v |-> n] : n \in {MinAge - 1, MinAge, MaxAge, MaxAge + 1}}
    \cup {[t |-> "float", v |-> k] : k \in {-5, 5, 10 * MinAge + 5, 10 * MaxAge + 9,
                                            10 * MaxAge + 10}}

\* kind "absent": no body or malformed JSON (get_json(silent=True) is None);
\* "falsy": a JSON value Python treats as false, other than an object with
\* members; "nonobject": any other JSON value that is not an object.
BodyOf(k, m, a) == [kind |-> k, message |-> m, age |-> a]
Bodies(n) ==
    {BodyOf(k, MsgMissing, AgeMissing) : k \in {"absent", "falsy", "nonobject"}}
    \cup {BodyOf("object", m, a) : m \in MsgFields(n), a \in AgeFields}

\* the reduced inputs of the concurrent specification
SmallBodies ==
    {BodyOf("absent", MsgMissing, AgeMissing)}
    \cup {BodyOf("object", [t |-> "str", v |-> s], [t |-> "int", v |-> n]) :
            s \in {<<"a">>, <<" ", "a">>}, n \in {MaxAge, MaxAge + 1}}

NoBody == BodyOf("none", MsgMissing, AgeMissing)

\* what the completion service does with a call.  "nocontent": a reply whose
\* content is None; "nochoices": a reply with no choices; "auth": the
\* library raises its AuthenticationError; "network": it raises any other
\* error (connection failure, timeout).
OutcomeOf(k, c) == [kind |-> k, content |-> c]
Outcomes(n) ==
    {OutcomeOf("ok", t) : t \in Texts(n)}
    \cup {OutcomeOf(k, UpstreamDetail) : k \in {"nocontent", "nochoices", "auth", "network"}}

SmallOutcomes ==
    {OutcomeOf("ok", <<" ", "a">>), OutcomeOf("auth", UpstreamDetail),
     OutcomeOf("network", UpstreamDetail)}

NoOutcome == OutcomeOf("none", NoText)

-----------------------------------------------------------------------------
(* Start-up: lines 33-46 *)

\* a truthiness test that takes the empty string for a key
KeyConfiguredNotNone(key) == key # "unset"

\* `if OPENAI_API_KEY` / `if not OPENAI_API_KEY`: None and "" are false
KeyConfigured(key) == key = "set"

\* openai.OpenAI exists in v1.0+ only; without it the AttributeError is
\* caught and client is None
ClientAtStartup(key, shape) == KeyConfigured(key) /\ shape = "v1"

\* the openai.error module exists in the legacy package only
HasErrorModule(shape) == shape = "legacy"

-----------------------------------------------------------------------------
(* chat(): lines 125-137 *)

Raised(e) == [exc |-> e, v |-> NoText]
Value(x) == [exc |-> "none", v |-> x]

EmptyMapping == [mapping |-> TRUE, message |-> MsgMissing, age |-> AgeMissing]

\* request.get_json(silent=True) without the `or {}`
GetJsonNoFallback(b) ==
    IF b.kind = "object"
    THEN [mapping |-> TRUE, message |-> b.message, age |-> b.age]
    ELSE [mapping |-> FALSE, message |-> MsgMissing, age |-> AgeMissing]

\* request.get_json(silent=True) or {}
GetJson(b) ==
    IF b.kind \in {"absent", "falsy"} THEN EmptyMapping
    ELSE IF b.kind = "nonobject"
    THEN [mapping |-> FALSE, message |-> MsgMissing, age |-> AgeMissing]
    ELSE [mapping |-> TRUE, message |-> b.message, age |-> b.age]

\* data.get("message", "") without the .strip()
MessageOfNoStrip(data) ==
    IF ~data.mapping THEN Raised("AttributeError")
    ELSE IF data.message.t = "missing" THEN Value(NoText)
    ELSE IF data.message.t = "str" THEN Value(data.message.v)
    ELSE Raised("AttributeError")

\* data.get("message", "").strip()
MessageOf(data) ==
    IF ~data.mapping THEN Raised("AttributeError")
    ELSE IF data.message.t = "missing" THEN Value(strip(NoText))
    ELSE IF data.message.t = "str" THEN Value(strip(data.message.v))
    ELSE Raised("AttributeError")

\* int(k / 10) for a float of k tenths: truncation towards zero
Trunc(k) == IF k >= 0 THEN k \div 10 ELSE -((-k) \div 10)

\* int(age)
PyInt(a) ==
    IF a.t \in {"missing", "null", "list"} THEN [exc |-> "TypeError", v |-> 0]
    ELSE IF a.t \in {"word", "floatstr", "nan"} THEN [exc |-> "ValueError", v |-> 0]
    ELSE IF a.t = "inf" THEN [exc |-> "OverflowError", v |-> 0]
    ELSE IF a.t = "float" THEN [exc |-> "none", v |-> Trunc(a.v)]
    ELSE [exc |-> "none", v |-> a.v]

\* a range test that turns the upper boundary away
OutOfRangeExclusive(n) == n < MinAge \/ n >= MaxAge

\* age_int < 1 or age_int > 18
OutOfRange(n) == n < MinAge \/ n > MaxAge

Resp(status, key, text) == [status |-> status, key |-> key, text |-> text]

\* an exception that leaves chat(): the framework answers, not the handler
Unhandled(exc) == Resp(500, "unhandled", <<exc>>)

NoResp == Resp(0, "none", NoText)

-----------------------------------------------------------------------------
(* get_ai_response(): lines 65-107 *)

\* lines 76-79
Turns(msg, age) ==
    << [role |-> "system", content |-> SystemPrompt(age)],
       [role |-> "user", content |-> msg] >>

\* a second call through the module path after the client path
CallPathsBoth(c) == IF c THEN <<"client", "module">> ELSE <<"module">>

\* lines 82-99: the client path or the module path
CallPaths(c) == IF c THEN <<"client">> ELSE <<"module">>

\* lines 90-107: what get_ai_response does with the service's answer
AdapterResult(o, shape) ==
    IF o.kind = "ok" THEN [exc |-> "none", v |-> strip(o.content), log |-> NoText]
    ELSE IF ~HasErrorModule(shape)
    THEN [exc |-> "AttributeError", v |-> NoText, log |-> NoText]
    ELSE IF o.kind = "auth"
    THEN [exc |-> "ValueError", v |-> ErrAuth,
          log |-> <<"Authentication error: ">> \o o.content]
    ELSE [exc |-> "ValueError", v |-> ErrContact,
          log |-> <<"Error communicating with OpenAI: ">> \o o.content]

\* lines 141-145
ChatReply(res) ==
    IF res.exc = "none" THEN Resp(200, "response", res.v)
    ELSE IF res.exc = "ValueError" THEN Resp(500, "error", res.v)
    ELSE Unhandled(res.exc)

-----------------------------------------------------------------------------
(* The state machine *)

InitRequests ==
    /\ pc = [r \in workers |-> "idle"]
    /\ body = [r \in workers |-> NoBody]
    /\ message = [r \in workers |-> NoText]
    /\ age_int = [r \in workers |-> <<>>]
    /\ adapter = [r \in workers |-> <<>>]
    /\ messages = [r \in workers |-> <<>>]
    /\ calls = [r \in workers |-> <<>>]
    /\ outcome = [r \in workers |-> NoOutcome]
    /\ logged = [r \in workers |-> NoText]
    /\ resp = [r \in workers |-> NoResp]

InitConfig ==
    /\ OPENAI_API_KEY \in {"unset", "empty", "set"}
    /\ lib \in {"v1", "legacy"}
    /\ client = ClientAtStartup(OPENAI_API_KEY, lib)

Init == InitConfig /\ workers = {1} /\ InitRequests

InitConc == InitConfig /\ workers = 1..NumWorkers /\ InitRequests

\* a POST /chat arrives
Receive(r) ==
    /\ pc[r] = "idle"
    /\ \E b \in (IF Cardinality(workers) = 1 THEN Bodies(MaxLen) ELSE SmallBodies) :
          body' = [body EXCEPT ![r] = b]
    /\ pc' = [pc EXCEPT ![r] = "chat"]
    /\ UNCHANGED <<cfg, message, age_int, adapter, messages, calls, outcome,
                   logged, resp>>

\* chat() from line 125 up to its return, or up to the outbound call of
\* get_ai_response() (lines 65-99)
Chat(r) ==
    /\ pc[r] = "chat"
    /\ LET data == GetJson(body[r])
           m == MessageOf(data)
           a == PyInt(data.age)
           Return(rsp) == /\ resp' = [resp EXCEPT ![r] = rsp]
                          /\ pc' = [pc EXCEPT ![r] = "done"]
                          /\ UNCHANGED <<messages, calls>>
       IN  IF m.exc # "none"
           THEN Return(Unhandled(m.exc)) /\ UNCHANGED <<message, age_int, adapter>>
           ELSE /\ message' = [message EXCEPT ![r] = m.v]
                /\ IF m.v = NoText
                   THEN /\ Return(Resp(400, "error", ErrNoMessage))
                        /\ UNCHANGED <<age_int, adapter>>
                   ELSE IF a.exc \in {"TypeError", "ValueError"}
                   THEN /\ Return(Resp(400, "error", ErrAgeInvalid))
                        /\ UNCHANGED <<age_int, adapter>>
                   ELSE IF a.exc # "none"
                   THEN /\ Return(Unhandled(a.exc))
                        /\ UNCHANGED <<age_int, adapter>>
                   ELSE /\ age_int' = [age_int EXCEPT ![r] = <<a.v>>]
                        /\ IF OutOfRange(a.v)
                           THEN /\ Return(Resp(400, "error", ErrAgeRange))
                                /\ UNCHANGED adapter
                           ELSE /\ adapter' = [adapter EXCEPT ![r] = <<m.v, a.v>>]
                                /\ IF ~KeyConfigured(OPENAI_API_KEY)
                                   THEN Return(Resp(500, "error", ErrNotConfigured))
                                   ELSE /\ messages' = [messages EXCEPT
                                                          ![r] = Turns(m.v, a.v)]
                                        /\ calls' = [calls EXCEPT
                                                       ![r] = CallPaths(client)]
                                        /\ pc' = [pc EXCEPT ![r] = "upstream"]
                                        /\ UNCHANGED resp
    /\ UNCHANGED <<cfg, body, outcome, logged>>

\* the outbound call returns or raises; get_ai_response() and chat() finish
UpstreamReturn(r) ==
    /\ pc[r] = "upstream"
    /\ \E o \in (IF Cardinality(workers) = 1 THEN Outcomes(MaxLen) ELSE SmallOutcomes) :
          LET res == AdapterResult(o, lib)
          IN  /\ outcome' = [outcome EXCEPT ![r] = o]
              /\ logged' = [logged EXCEPT ![r] = res.log]
              /\ resp' = [resp EXCEPT ![r] = ChatReply(res)]
    /\ pc' = [pc EXCEPT ![r] = "done"]
    /\ UNCHANGED <<cfg, body, message, age_int, adapter, messages, calls>>

Next ==
    \/ \E r \in workers : Receive(r)
    \/ \E r \in workers : Chat(r)
    \/ \E r \in workers : UpstreamReturn(r)

Spec == Init /\ [][Next]_vars

SpecConc == InitConc /\ [][Next]_vars

TypeOK ==
    /\ OPENAI_API_KEY \in {"unset", "empty", "set"}
    /\ lib \in {"v1", "legacy"}
    /\ client \in BOOLEAN
    /\ \A r \in workers :
          /\ pc[r] \in {"idle", "chat", "upstream", "done"}
          /\ Len(age_int[r]) <= 1
          /\ Len(messages[r]) \in {0, 2}

-----------------------------------------------------------------------------
(* Vocabulary of the properties, stated on the posted body *)

Spaces(n) == [i \in 1..n |-> " "]

\* t is s with its leading and trailing whitespace removed, nothing else altered
IsTrimOf(t, s) ==
    /\ \E i, j \in 0..Len(s) : s = Spaces(i) \o t \o Spaces(j)
    /\ t = <<>> \/ (~IsSpace(t[1]) /\ ~IsSpace(t[Len(t)]))

\* the message is missing or empty after trimming; a missing or malformed
\* body counts as an empty mapping
NoMessage(b) ==
    \/ b.kind \in {"absent", "falsy"}
    \/ /\ b.kind = "object"
       /\ \/ b.message.t = "missing"
          \/ b.message.t = "str" /\ \A i \in 1..Len(b.message.v) : IsSpace(b.message.v[i])

\* the message is a string that is not empty after trimming
HasMessage(b) ==
    /\ b.kind = "object"
    /\ b.message.t = "str"
    /\ \E i \in 1..Len(b.message.v) : ~IsSpace(b.message.v[i])

\* the age is a JSON value with an integer value: an integer, a finite
\* float, a boolean, or the decimal text of an integer
Converts(a) == a.t \in {"int", "numstr", "float", "bool"}

IntOf(a) == PyInt(a).v

ValidBody(b) ==
    HasMessage(b) /\ Converts(b.age) /\ IntOf(b.age) >= 1 /\ IntOf(b.age) <= 18

Handled(r) == pc[r] \in {"upstream", "done"}
Done(r) == pc[r] = "done"
CredentialSet == OPENAI_API_KEY = "set"
UpstreamFailed(r) == outcome[r].kind \in {"nocontent", "nochoices", "auth", "network"}
ValidationErrors == {ErrNoMessage, ErrAgeInvalid, ErrAgeRange}

-----------------------------------------------------------------------------
(* Properties *)

\* C1: when the upstream call fails, every valid request with a credential
\* configured is answered 200 with a "response" fallback text that holds no
\* upstream detail, never 500.
C1_UpstreamFailureFallback ==
    \A r \in workers :
        (Done(r) /\ ValidBody(body[r]) /\ CredentialSet /\ UpstreamFailed(r))
        => /\ resp[r].status = 200
           /\ resp[r].key = "response"
           /\ resp[r].text # outcome[r].content

C3_AdapterInfallible ==
    \A r \in workers :
        (Done(r) /\ adapter[r] # <<>>) => resp[r].key = "response"

\* C4: with a credential and the upstream succeeding with text T, a valid
\* request is answered 200 {"response": T'} with T' exactly T trimmed, and the
\* call carried two turns: the system prompt with the validated age, then
\* the trimmed message.
C4_SuccessReply ==
    \A r \in workers :
        (Done(r) /\ ValidBody(body[r]) /\ CredentialSet /\ outcome[r].kind = "ok")
        => /\ resp[r].status = 200
           /\ resp[r].key = "response"
           /\ IsTrimOf(resp[r].text, outcome[r].content)
           /\ Len(messages[r]) = 2
           /\ messages[r][1] = [role |-> "system",
                                content |-> SystemPrompt(IntOf(body[r].age))]
           /\ messages[r][2].role = "user"
           /\ IsTrimOf(messages[r][2].content, body[r].message.v)

C4_Witness ==
    \E r \in workers :
        /\ Done(r) /\ ValidBody(body[r]) /\ CredentialSet
        /\ body[r].message.v = <<" ", "a">>
        /\ outcome[r] = OutcomeOf("ok", <<"a", " ">>)
        /\ resp[r] = Resp(200, "response", <<"a">>)

\* C5: a request whose message is missing, empty or whitespace-only (a missing
\* or malformed body included) is answered 400 "No message provided.",
\* whatever the age, and the adapter is not called.
C5_NoMessage ==
    \A r \in workers :
        (Handled(r) /\ NoMessage(body[r]))
        => /\ Done(r)
           /\ resp[r] = Resp(400, "error", ErrNoMessage)
           /\ adapter[r] = <<>>
           /\ calls[r] = <<>>

C5_Witness ==
    \E r \in workers :
        /\ Done(r) /\ body[r].kind = "object"
        /\ body[r].message = [t |-> "str", v |-> <<" ">>]
        /\ body[r].age = [t |-> "int", v |-> 7]
        /\ resp[r].status = 400

\* C6: a request with a message and an age that does not convert to an
\* integer is answered 400 "Invalid age provided." and the adapter is not
\* called.
C6_InvalidAge ==
    \A r \in workers :
        (Done(r) /\ HasMessage(body[r]) /\ ~Converts(body[r].age))
        => /\ resp[r] = Resp(400, "error", ErrAgeInvalid)
           /\ adapter[r] = <<>>

\* C7: for a request with a message and an age that converts to the integer
\* n, the answer is 400 "Please enter an age between 1 and 18." iff n < 1 or
\* n > 18, and for n in 1..18 the adapter is called with the trimmed message
\* and age n.
C7_AgeRange ==
    \A r \in workers :
        (Handled(r) /\ HasMessage(body[r]) /\ Converts(body[r].age))
        => LET n == IntOf(body[r].age)
           IN  /\ (resp[r] = Resp(400, "error", ErrAgeRange)) <=> (n < 1 \/ n > 18)
               /\ (n < 1 \/ n > 18) => (Done(r) /\ adapter[r] = <<>>)
               /\ (n >= 1 /\ n <= 18)
                  => /\ Len(adapter[r]) = 2
                     /\ adapter[r][2] = n
                     /\ IsTrimOf(adapter[r][1], body[r].message.v)

C7_Witness ==
    \E r \in workers :
        /\ Handled(r) /\ HasMessage(body[r])
        /\ body[r].age = [t |-> "int", v |-> 18]
        /\ adapter[r] = <<strip(body[r].message.v), 18>>

\* C8: whenever a prompt is built or an outbound call is issued, the age in
\* the prompt is an integer in [1, 18], the message sent is non-empty with no
\* leading or trailing whitespace, and the request passed validation.
C8_PromptInputs ==
    \A r \in workers :
        (messages[r] # <<>> \/ calls[r] # <<>>)
        => /\ ValidBody(body[r])
           /\ Len(messages[r]) = 2
           /\ messages[r][1].content[2] \in 1..18
           /\ LET sent == messages[r][2].content
              IN  /\ sent # <<>>
                  /\ ~IsSpace(sent[1])
                  /\ ~IsSpace(sent[Len(sent)])

C8_Witness ==
    \E r \in workers :
        /\ pc[r] = "upstream"
        /\ body[r].message.v = <<" ", "a">>
        /\ messages[r][2].content = <<"a">>
        /\ messages[r][1].content[2] = 18

\* C9: every request triggers at most one outbound call, a valid request with
\* a credential exactly one, whatever other requests are doing; two identical
\* valid requests give two calls; handling a request changes neither the
\* configuration nor anything of another request.
C9_CallsInv ==
    \A r \in workers :
        /\ Len(calls[r]) <= 1
        /\ (Handled(r) /\ ValidBody(body[r]) /\ CredentialSet) => Len(calls[r]) = 1

C9_Isolated ==
    /\ cfg' = cfg
    /\ \A r \in workers :
          pc'[r] = pc[r]
          => /\ body'[r] = body[r] /\ message'[r] = message[r]
             /\ age_int'[r] = age_int[r] /\ adapter'[r] = adapter[r]
             /\ messages'[r] = messages[r] /\ calls'[r] = calls[r]
             /\ outcome'[r] = outcome[r] /\ resp'[r] = resp[r]

C9_OneCallEach == []C9_CallsInv /\ [][C9_Isolated]_vars

C9_Witness ==
    \E r, q \in workers :
        /\ r # q /\ body[r] = body[q] /\ ValidBody(body[r])
        /\ Done(r) /\ pc[q] = "upstream"
        /\ Len(calls[r]) = 1 /\ Len(calls[q]) = 1

\* C10: every request ends with the handler returning a JSON object with
\* exactly one of the keys "response" and "error"; no exception leaves
\* chat(), and a status other than 200 is given to validation failures only.
C10_AlwaysJson ==
    \A r \in workers :
        Done(r)
        => /\ resp[r].key \in {"response", "error"}
           /\ resp[r].status # 200
              => (resp[r].status = 400 /\ resp[r].text \in ValidationErrors)

====
